---- MODULE Spec2Model ----
(***************************************************************************)
(* Model of package logger (github.com/comfforts/logger): the process-wide *)
(* slog singleton (once, base, initErr) with its entry points, the context *)
(* carrier (WithLogger / LoggerFromContext) and the zap constructors.      *)
(*                                                                         *)
(* Strings are sequences of one-character strings, so that TrimSpace and   *)
(* ToLower are computed and not assumed.  A goroutine is a thread t; the   *)
(* unsynchronised reads of base on the fast paths are modelled after the   *)
(* Go memory model: a reader that has not synchronised with the completion *)
(* of once.Do may observe the old or the new pointer, and what the pointer *)
(* refers to need not be visible to it.                                    *)
(***************************************************************************)
EXTENDS Integers, Sequences, FiniteSets, TLC

VARIABLES env, once, base, initErr, cfgLocal, buildCount, setDefaultCount,
          slogDefault, noticeCount, pc, call, hb, held, last, calls, ctxs,
          panicked

vars == <<env, once, base, initErr, cfgLocal, buildCount, setDefaultCount,
          slogDefault, noticeCount, pc, call, hb, held, last, calls, ctxs,
          panicked>>

(* ------------------------------ bounds -------------------------------- *)
\* goroutines using the package concurrently
NumThreads == 2
\* calls made to the package in one run
MaxCalls == 3
\* contexts derived with WithLogger
MaxCtx == 2

Threads == 1..NumThreads

(* ------------------------------ strings ------------------------------- *)
UpperChars == <<"A","B","C","D","E","F","G","H","I","J","K","L","M",
                "N","O","P","Q","R","S","T","U","V","W","X","Y","Z">>
LowerChars == <<"a","b","c","d","e","f","g","h","i","j","k","l","m",
                "n","o","p","q","r","s","t","u","v","w","x","y","z">>
SpaceChars == {" ", "\t", "\n", "\r"}

LowerChar(c) ==
    IF \E i \in 1..Len(UpperChars) : UpperChars[i] = c
    THEN LowerChars[CHOOSE i \in 1..Len(UpperChars) : UpperChars[i] = c]
    ELSE c

\* strings.ToLower
ToLower(s) == [i \in 1..Len(s) |-> LowerChar(s[i])]

RECURSIVE TrimLeft(_)
TrimLeft(s) ==
    IF s # <<>> /\ Head(s) \in SpaceChars THEN TrimLeft(Tail(s)) ELSE s

RECURSIVE TrimRight(_)
TrimRight(s) ==
    IF s # <<>> /\ s[Len(s)] \in SpaceChars
    THEN TrimRight(SubSeq(s, 1, Len(s) - 1)) ELSE s

\* strings.TrimSpace
TrimSpace(s) == TrimRight(TrimLeft(s))

Empty == <<>>
S_dev == <<"d","e","v">>
S_DEV_sp == <<" ","D","E","V"," ">>
S_development == <<"d","e","v","e","l","o","p","m","e","n","t">>
S_prod == <<"p","r","o","d">>
S_local == <<"l","o","c","a","l">>
S_Local == <<"L","o","c","a","l">>
S_json == <<"j","s","o","n">>
S_text == <<"t","e","x","t">>
S_TEXT_sp == <<" ","T","E","X","T"," ">>
S_console == <<"c","o","n","s","o","l","e">>
S_xml == <<"x","m","l">>
S_tmp == <<"t","m","p">>
S_svc == <<"s","v","c">>
S_Development == <<"D","e","v","e","l","o","p","m","e","n","t">>
S_devel == <<"d","e","v","e","l">>
S_local_nl == <<" ","l","o","c","a","l","\n">>
S_locale == <<"l","o","c","a","l","e">>
S_Console_tab == <<"\t","C","o","n","s","o","l","e">>
S_te_xt == <<"t","e"," ","x","t">>

DEFAULT_LOG_FILE_PATH == <<"l","o","g","s","/","a","p","p",".","l","o","g">>

(* ------------------------------ values -------------------------------- *)
\* slog levels, lowest first; NilLevel is a nil slog.Leveler
LevelOrder == <<"DEBUG", "INFO", "WARN", "ERROR">>
NilLevel == "nil"
LevelRank(l) == CHOOSE i \in 1..Len(LevelOrder) : LevelOrder[i] = l

\* a write destination
StdoutSink == [kind |-> "stdout", path |-> Empty]
FileSink(p) == [kind |-> "file", path |-> p]

\* an io.Writer is the sequence of destinations a write is passed to
Stdout == <<StdoutSink>>
Discard == <<>>

\* filepath.Join(dir, p) for a clean, non-empty dir
PathJoin(dir, p) == dir \o <<"/">> \o p

\* a nil *slog.Logger
NIL == [id |-> 0, handler |-> "", level |-> NilLevel, writer |-> Discard,
        addSource |-> FALSE, attrs |-> 0]
IsNil(l) == l.id = 0

NoErr == "nil"
ErrNoLoggerInContext == "no logger found in context"

(* --------------------------- pure functions --------------------------- *)
\* GetFileWriter: the lumberjack writer on dir/logs/app.log
GetFileWriter(dir) ==
    LET filePath == IF dir # Empty THEN PathJoin(dir, DEFAULT_LOG_FILE_PATH)
                    ELSE DEFAULT_LOG_FILE_PATH
    IN  <<FileSink(filePath)>>

\* io.MultiWriter(dests...): the destinations of all the writers, in order
RECURSIVE Flatten(_)
Flatten(ws) == IF ws = <<>> THEN <<>> ELSE Head(ws) \o Flatten(Tail(ws))
GetMultiWriter(dests) == Flatten(dests)

\* Write on an io.MultiWriter of the destinations w, of which those in
\* failing return an error: the destinations are written in order, and the
\* write stops at the first error and returns it
ErrWrite == "write error"
FirstFailing(w, failing) ==
    LET F == {i \in 1..Len(w) : w[i] \in failing}
    IN  IF F = {} THEN Len(w) + 1 ELSE CHOOSE i \in F : \A j \in F : i <= j
MultiWrite(w, failing) ==
    LET k == FirstFailing(w, failing)
    IN  [sinks |-> {w[i] : i \in 1..(k - 1)},
         err   |-> IF k <= Len(w) THEN ErrWrite ELSE NoErr]

\* a defaultConfig that compares the variables as they are
defaultConfigRaw(e) ==
    LET dev == e.ENV = S_dev \/ e.ENV = S_development \/ e.GO_ENV = S_dev
               \/ e.GO_ENV = S_development \/ e.INFRA = S_local
    IN  [Level     |-> IF dev THEN "DEBUG" ELSE "INFO",
         Format    |-> IF dev THEN S_text ELSE S_json,
         Writer    |-> Stdout,
         AddSource |-> TRUE]

\* defaultConfig on the environment snapshot e
defaultConfig(e) ==
    LET envv  == ToLower(TrimSpace(e.ENV))
        goEnv == ToLower(TrimSpace(e.GO_ENV))
        infra == ToLower(TrimSpace(e.INFRA))
        dev   == envv = S_dev \/ envv = S_development \/ goEnv = S_dev
                 \/ goEnv = S_development \/ infra = S_local
    IN  [Level     |-> IF dev THEN "DEBUG" ELSE "INFO",
         Format    |-> IF dev THEN S_text ELSE S_json,
         Writer    |-> Stdout,
         AddSource |-> TRUE]

\* the options: WithLevel, WithFormat, WithWriter, WithAddSource
WithLevel(l)     == [kind |-> "level", level |-> l, format |-> Empty,
                     writer |-> Discard, add |-> FALSE]
WithFormat(f)    == [kind |-> "format", level |-> NilLevel, format |-> f,
                     writer |-> Discard, add |-> FALSE]
WithWriter(w)    == [kind |-> "writer", level |-> NilLevel, format |-> Empty,
                     writer |-> w, add |-> FALSE]
WithAddSource(b) == [kind |-> "addSource", level |-> NilLevel, format |-> Empty,
                     writer |-> Discard, add |-> b]

\* opt(&cfg)
ApplyOpt(c, o) ==
    CASE o.kind = "level"     -> [c EXCEPT !.Level = o.level]
      [] o.kind = "format"    -> [c EXCEPT !.Format = o.format]
      [] o.kind = "writer"    -> [c EXCEPT !.Writer = o.writer]
      [] o.kind = "addSource" -> [c EXCEPT !.AddSource = o.add]

\* an Init that forgets the loop over its options
ApplyOptsSkipped(c, opts) == c

\* for _, opt := range opts { opt(&cfg) }
RECURSIVE ApplyOpts(_, _)
ApplyOpts(c, opts) ==
    IF opts = <<>> THEN c ELSE ApplyOpts(ApplyOpt(c, Head(opts)), Tail(opts))

\* a switch on the format as given
HandlerForRaw(format) ==
    CASE format = S_json -> "json"
      [] format = S_text \/ format = S_console -> "text"
      [] OTHER -> "json"

\* the handler build selects for a format
HandlerFor(format) ==
    LET f == ToLower(TrimSpace(format))
    IN  CASE f = S_json -> "json"
          [] f = S_text \/ f = S_console -> "text"
          [] OTHER -> "json"

\* a build that fails when its writer is not standard output
buildFailing(c) ==
    IF c.Writer # Stdout
    THEN [logger |-> NIL, err |-> "build failed"]
    ELSE [logger |-> [id |-> 1, handler |-> HandlerFor(c.Format),
                      level |-> c.Level, writer |-> c.Writer,
                      addSource |-> c.AddSource, attrs |-> 0],
          err |-> NoErr]

\* build: the logger and the error it returns
build(c) ==
    [logger |-> [id |-> 1, handler |-> HandlerFor(c.Format), level |-> c.Level,
                 writer |-> c.Writer, addSource |-> c.AddSource, attrs |-> 0],
     err |-> NoErr]

\* slog.New(slog.NewTextHandler(io.Discard, nil))
DiscardLogger ==
    [id |-> 2, handler |-> "text", level |-> NilLevel, writer |-> Discard,
     addSource |-> FALSE, attrs |-> 0]

\* the level a handler logs from: a nil Level means LevelInfo
MinLevel(l) == IF l.level = NilLevel THEN "INFO" ELSE l.level
Enabled(l, msgLevel) == LevelRank(msgLevel) >= LevelRank(MinLevel(l))

(* ------------------------------ zap side ------------------------------ *)
\* a nil *AppLoggerConfig
NilConfig == [isNil |-> TRUE, FilePath |-> Empty, Name |-> Empty, Level |-> "InfoLevel"]
AppLoggerConfig(fp, name, lvl) ==
    [isNil |-> FALSE, FilePath |-> fp, Name |-> name, Level |-> lvl]

DEFAULT_LOG_LEVEL == "DebugLevel"
NoZap == [level |-> "", encoder |-> "", filePath |-> Empty, name |-> Empty]

\* GetZapLogger(dir, namedAs) under the environment snapshot e
GetZapLogger(e, dir, namedAs) ==
    LET filePath == IF dir # Empty THEN PathJoin(dir, DEFAULT_LOG_FILE_PATH)
                    ELSE DEFAULT_LOG_FILE_PATH
        local    == e.INFRA = S_local
    IN  [level    |-> IF local THEN "DebugLevel" ELSE "InfoLevel",
         encoder  |-> IF local THEN "development" ELSE "production",
         filePath |-> filePath,
         name     |-> namedAs]

\* NewAppLogger(config): config.Name is read whether or not config is nil
NewAppLogger(config) ==
    LET filePath == IF ~config.isNil /\ config.FilePath # Empty
                    THEN config.FilePath ELSE DEFAULT_LOG_FILE_PATH
        logLevel == IF ~config.isNil THEN config.Level ELSE DEFAULT_LOG_LEVEL
    IN  IF config.isNil
        THEN [panic |-> TRUE, zap |-> NoZap]
        ELSE [panic |-> FALSE,
              zap |-> [level |-> logLevel, encoder |-> "production",
                       filePath |-> filePath, name |-> config.Name]]

\* NewTestAppLogger(dir)
NewTestAppLogger(dir) ==
    LET filePath == IF dir # Empty THEN PathJoin(dir, DEFAULT_LOG_FILE_PATH)
                    ELSE DEFAULT_LOG_FILE_PATH
    IN  [level |-> DEFAULT_LOG_LEVEL, encoder |-> "development",
         filePath |-> filePath, name |-> <<"t","e","s","t">>]

(* --------------------------- context carrier -------------------------- *)
contextLoggerKey == "ContextLoggerKey"

\* the values a caller may pass as the Logger: a nil interface or a logger
NilValue == "nil"
LoggerValues == {"L1", "L2"}
AttachValues == {NilValue} \cup LoggerValues

\* the contexts of the caller before the package is used: context 0 is
\* context.Background(), context 1 carries a value under a key of the caller
CallerCtxs == <<[parent |-> 0, key |-> "callerKey", val |-> "L1"]>>

\* ctx.Value(key) on context c of the store cs: the nearest value under key
RECURSIVE CtxValue(_, _, _)
CtxValue(cs, c, key) ==
    IF c = 0 THEN NilValue
    ELSE IF cs[c].key = key THEN cs[c].val
    ELSE CtxValue(cs, cs[c].parent, key)

\* a WithLogger that stores the logger in the context it was given
WithLoggerInPlace(cs, c, L) ==
    IF c = 0 THEN Append(cs, [parent |-> c, key |-> contextLoggerKey, val |-> L])
    ELSE [cs EXCEPT ![c] = [parent |-> cs[c].parent, key |-> contextLoggerKey,
                            val |-> L]]

\* a WithLogger that stores the logger under the caller's key
WithLoggerOtherKey(cs, c, L) ==
    Append(cs, [parent |-> c, key |-> "callerKey", val |-> L])

\* WithLogger(ctx, logger): the store with the derived context added
WithLogger(cs, c, L) ==
    Append(cs, [parent |-> c, key |-> contextLoggerKey, val |-> L])

\* a LoggerFromContext that does not look at the outcome of the assertion
LoggerFromContextUnchecked(cs, c) ==
    [logger |-> CtxValue(cs, c, contextLoggerKey), err |-> NoErr]

\* LoggerFromContext(ctx): the type assertion fails on a nil interface
LoggerFromContext(cs, c) ==
    LET v  == CtxValue(cs, c, contextLoggerKey)
        ok == v \in LoggerValues
    IN  IF ~ok THEN [logger |-> NilValue, err |-> ErrNoLoggerInContext]
        ELSE [logger |-> v, err |-> NoErr]

(* ------------------------------- state -------------------------------- *)
EnvSnapshots ==
    {[ENV |-> S_prod, GO_ENV |-> Empty, INFRA |-> Empty],
     [ENV |-> Empty, GO_ENV |-> S_DEV_sp, INFRA |-> S_local]}

\* the option lists the application passes to Init
OptLists ==
    {<<>>,
     <<WithLevel("ERROR")>>,
     <<WithFormat(S_TEXT_sp)>>,
     <<WithFormat(S_json), WithLevel("DEBUG"), WithLevel("ERROR")>>,
     <<WithAddSource(FALSE), WithFormat(S_xml)>>}

Dirs == {Empty, S_tmp}

GetOps == {"GetSlogLogger", "GetSlogMultiLogger", "GetSlogFileLogger"}

\* what an option list supplies: the last WithLevel and the last WithFormat
NoSup == [hasLevel |-> FALSE, level |-> NilLevel, hasFormat |-> FALSE,
          format |-> Empty]
RECURSIVE Supplied(_)
Supplied(opts) ==
    IF opts = <<>> THEN NoSup
    ELSE LET rest == Supplied(SubSeq(opts, 1, Len(opts) - 1))
             o    == opts[Len(opts)]
         IN  [hasLevel  |-> rest.hasLevel \/ o.kind = "level",
              level     |-> IF o.kind = "level" THEN o.level ELSE rest.level,
              hasFormat |-> rest.hasFormat \/ o.kind = "format",
              format    |-> IF o.kind = "format" THEN o.format ELSE rest.format]

NoCall == [op |-> "", dir |-> Empty, sup |-> NoSup]

\* the logger a thread holds from its last getter call
NoHeld == [logger |-> NIL, complete |-> TRUE, via |-> ""]

\* the result of the call that returned last
NoRet == [op |-> "", logger |-> NIL, complete |-> TRUE,
          err |-> NoErr, sup |-> NoSup, built |-> FALSE, ctx |-> 0,
          val |-> NilValue, via |-> "", level |-> "", sinks |-> {},
          zap |-> NoZap, writer |-> Discard, failing |-> {}]

Init ==
    /\ env \in EnvSnapshots
    /\ once = "new"
    /\ base = NIL
    /\ initErr = NoErr
    /\ cfgLocal = defaultConfig(env)
    /\ buildCount = 0
    /\ setDefaultCount = 0
    /\ slogDefault = NIL
    /\ noticeCount = 0
    /\ pc = [t \in Threads |-> "idle"]
    /\ call = [t \in Threads |-> NoCall]
    /\ hb = [t \in Threads |-> FALSE]
    /\ held = [t \in Threads |-> NoHeld]
    /\ last = NoRet
    /\ calls = 0
    /\ ctxs = CallerCtxs
    /\ panicked = FALSE

\* a thread that has not yet touched the singleton
Fresh(t) == pc[t] = "idle" /\ ~hb[t] /\ held[t] = NoHeld

\* a call starts: the thread is between calls and the run has calls left
\* (threads are interchangeable: of two fresh threads the lower one calls)
CanCall(t) ==
    /\ pc[t] = "idle" /\ calls < MaxCalls /\ ~panicked
    /\ IF t = 1 THEN TRUE ELSE ~(Fresh(t - 1) /\ Fresh(t))
    /\ calls' = calls + 1

\* the call of thread t returns r
Returns(t, r) ==
    /\ last' = r
    /\ pc' = [pc EXCEPT ![t] = "idle"]
    /\ call' = [call EXCEPT ![t] = NoCall]

\* a getter returns logger l, seen whole or not, to thread t
Holds(t, op, l, whole) ==
    held' = [held EXCEPT ![t] = [logger |-> l, complete |-> whole, via |-> op]]

\* the call of thread t panics: the process ends
Panics(t, op) ==
    /\ panicked' = TRUE
    /\ Returns(t, [NoRet EXCEPT !.op = op, !.err = "panic"])

\* the package variables of the singleton
singleton == <<once, base, initErr, cfgLocal, buildCount, setDefaultCount,
               slogDefault, noticeCount>>

(* ----------------------- unsynchronised reads ------------------------- *)
\* what a read of base outside once.Do may observe: a thread that has not
\* synchronised with the completed once.Do may still see the initial nil
ObservedBase(t) == IF hb[t] THEN {base} ELSE {NIL, base}

\* whether the logger behind an observed non-nil pointer is visible whole
Visible(t) == IF hb[t] THEN {TRUE} ELSE {TRUE, FALSE}

(* --------------------------- the singleton ---------------------------- *)
\* a guard on base in place of the once: f runs while base is nil
OnceFreeWhileNil == once # "done" /\ IsNil(base)

\* no guard at all: every Init runs f
OnceFreeAlways == TRUE

\* sync.Once: f runs for the first caller only
OnceFree == once = "new"

\* once.Do(func() {...}) entered by the first caller: cfg is resolved
OnceEnter(t, opts, c) ==
    /\ OnceFree
    /\ once' = "running"
    /\ cfgLocal' = ApplyOpts(defaultConfig(env), opts)
    /\ pc' = [pc EXCEPT ![t] = "build"]
    /\ call' = [call EXCEPT ![t] = c]
    /\ UNCHANGED <<env, base, initErr, buildCount, setDefaultCount, slogDefault,
                   noticeCount, hb, held, last, ctxs, panicked>>

\* Init returns initErr to its caller: to the application, or into a getter
InitReturns(t, c, built) ==
    /\ hb' = [hb EXCEPT ![t] = TRUE]
    /\ IF c.op = "Init"
       THEN Returns(t, [NoRet EXCEPT !.op = "Init", !.err = initErr',
                                     !.sup = c.sup, !.built = built])
       ELSE /\ pc' = [pc EXCEPT ![t] = "ret"]
            /\ UNCHANGED <<last, call>>

\* Init(opts...) called by the application
InitCall(t, opts) ==
    /\ CanCall(t)
    /\ LET c == [op |-> "Init", dir |-> Empty, sup |-> Supplied(opts)]
       IN  \/ OnceEnter(t, opts, c)
           \/ /\ ~OnceFree
              /\ pc' = [pc EXCEPT ![t] = "init"]
              /\ call' = [call EXCEPT ![t] = c]
              /\ UNCHANGED <<env, singleton, hb, held, last, ctxs, panicked>>

\* the options a getter passes to Init
GetterOpts(op, dir) ==
    CASE op = "GetSlogLogger" -> <<>>
      [] op = "GetSlogMultiLogger" ->
            <<WithWriter(GetMultiWriter(<<Stdout, GetFileWriter(dir)>>))>>
      [] op = "GetSlogFileLogger" -> <<WithWriter(GetFileWriter(dir))>>

\* if base != nil { return base }
FastPath(b) == ~IsNil(b)

\* GetSlogLogger / GetSlogMultiLogger / GetSlogFileLogger, up to the call of
\* Init: the check of base
GetStart(t, op, dir) ==
    /\ CanCall(t)
    /\ \E b \in ObservedBase(t) :
         IF FastPath(b)
         THEN /\ \E v \in Visible(t) :
                   /\ Returns(t, [NoRet EXCEPT !.op = op, !.logger = b,
                                               !.complete = v])
                   /\ Holds(t, op, b, v)
              /\ UNCHANGED <<env, singleton, hb, ctxs, panicked>>
         ELSE /\ pc' = [pc EXCEPT ![t] = "init"]
              /\ call' = [call EXCEPT ![t] = [op |-> op, dir |-> dir,
                                              sup |-> NoSup]]
              /\ UNCHANGED <<env, singleton, hb, held, last, ctxs, panicked>>

\* a getter's call of Init reaches once.Do before anyone else
GetInit(t) ==
    /\ pc[t] = "init" /\ ~panicked
    /\ call[t].op \in GetOps
    /\ OnceEnter(t, GetterOpts(call[t].op, call[t].dir), call[t])
    /\ UNCHANGED calls

\* base, initErr = build(cfg): build runs and base is stored
Build(t) ==
    /\ pc[t] = "build" /\ ~panicked
    /\ base' = build(cfgLocal).logger
    /\ buildCount' = buildCount + 1
    /\ pc' = [pc EXCEPT ![t] = "seterr"]
    /\ UNCHANGED <<env, once, initErr, cfgLocal, setDefaultCount, slogDefault,
                   noticeCount, call, hb, held, last, calls, ctxs,
                   panicked>>

\* a once whose completion is never published: its waiters stay blocked
BuildDoneNoRelease(t) ==
    /\ pc[t] = "seterr" /\ ~panicked
    /\ initErr' = build(cfgLocal).err
    /\ once' = "running"
    /\ InitReturns(t, call[t], TRUE)
    /\ UNCHANGED <<env, base, cfgLocal, buildCount, setDefaultCount,
                   slogDefault, noticeCount, held, calls, ctxs, panicked>>

\* initErr is stored, once.Do completes and Init returns
BuildDone(t) ==
    /\ pc[t] = "seterr" /\ ~panicked
    /\ initErr' = build(cfgLocal).err
    /\ once' = "done"
    /\ InitReturns(t, call[t], TRUE)
    /\ UNCHANGED <<env, base, cfgLocal, buildCount, setDefaultCount,
                   slogDefault, noticeCount, held, calls, ctxs, panicked>>

\* a caller that found once.Do taken: it waits for it to complete and
\* Init returns initErr
InitWait(t) ==
    /\ pc[t] = "init" /\ ~panicked
    /\ once = "done"
    /\ UNCHANGED <<env, singleton, held, calls, ctxs, panicked>>
    /\ InitReturns(t, call[t], FALSE)

\* the rest of a getter after Init has returned
GetFinish(t) ==
    /\ pc[t] = "ret" /\ ~panicked
    /\ IF initErr # NoErr
       THEN /\ noticeCount' = noticeCount + 1
            /\ Returns(t, [NoRet EXCEPT !.op = call[t].op,
                                        !.logger = DiscardLogger])
            /\ Holds(t, call[t].op, DiscardLogger, TRUE)
            /\ UNCHANGED <<setDefaultCount, slogDefault>>
       ELSE /\ setDefaultCount' = setDefaultCount + 1
            /\ slogDefault' = base
            /\ Returns(t, [NoRet EXCEPT !.op = call[t].op, !.logger = base])
            /\ Holds(t, call[t].op, base, TRUE)
            /\ UNCHANGED noticeCount
    /\ UNCHANGED <<env, once, base, initErr, cfgLocal, buildCount, hb, calls,
                   ctxs, panicked>>

\* WithAttrs(attrs...) with n attributes: base.With(attrs...)
WithAttrs(t, n) ==
    /\ CanCall(t)
    /\ \E b \in ObservedBase(t) :
         IF IsNil(b)
         THEN IF n = 0
              THEN /\ Returns(t, [NoRet EXCEPT !.op = "WithAttrs"])
                   /\ UNCHANGED panicked
              ELSE Panics(t, "WithAttrs")
         ELSE /\ \E v \in Visible(t) :
                   Returns(t, [NoRet EXCEPT !.op = "WithAttrs", !.complete = v,
                                 !.logger = IF n = 0 THEN b
                                            ELSE [b EXCEPT !.id = 3, !.attrs = n]])
              /\ UNCHANGED panicked
    /\ UNCHANGED <<env, singleton, hb, held, ctxs>>

\* the destinations one record of level lvl written through l reaches
Delivered(l, lvl) ==
    IF Enabled(l, lvl) THEN {l.writer[i] : i \in 1..Len(l.writer)} ELSE {}

\* l.Debug / l.Info / l.Warn / l.Error on the logger a getter returned
Log(t, lvl) ==
    /\ CanCall(t)
    /\ held[t].via \in GetOps
    /\ LET l == held[t].logger
           r == [NoRet EXCEPT !.op = "Log", !.via = held[t].via, !.logger = l,
                              !.complete = held[t].complete, !.level = lvl]
       IN  IF held[t].complete
           THEN /\ Returns(t, [r EXCEPT !.sinks = Delivered(l, lvl)])
                /\ UNCHANGED panicked
           ELSE \* the logger is not visible whole: any part of the write
                \* may happen, or a nil handler is dereferenced
                \/ /\ \E d \in SUBSET Delivered(l, lvl) :
                        Returns(t, [r EXCEPT !.sinks = d])
                   /\ UNCHANGED panicked
                \/ Panics(t, "Log")
    /\ UNCHANGED <<env, singleton, hb, held, ctxs>>

(* --------------------------- context calls ---------------------------- *)
CtxIds == 0..Len(ctxs)

\* ctx2 := WithLogger(ctx, L) by thread t
CallWithLogger(t, c, L) ==
    /\ CanCall(t)
    /\ Len(ctxs) < Len(CallerCtxs) + MaxCtx
    /\ ctxs' = WithLogger(ctxs, c, L)
    /\ Returns(t, [NoRet EXCEPT !.op = "WithLogger", !.ctx = Len(ctxs) + 1,
                                !.val = L])
    /\ UNCHANGED <<env, singleton, hb, held, panicked>>

\* LoggerFromContext(ctx) by thread t
CallLoggerFromContext(t, c) ==
    /\ CanCall(t)
    /\ LET r == LoggerFromContext(ctxs, c)
       IN  Returns(t, [NoRet EXCEPT !.op = "LoggerFromContext", !.ctx = c,
                                    !.val = r.logger, !.err = r.err])
    /\ UNCHANGED <<env, singleton, hb, held, ctxs, panicked>>

(* ------------------------------ zap calls ----------------------------- *)
Configs ==
    {NilConfig} \cup
    {AppLoggerConfig(fp, name, lvl) :
       fp \in {Empty, S_tmp}, name \in {Empty, S_svc},
       lvl \in {"DebugLevel", "InfoLevel", "ErrorLevel"}}

CallGetZapLogger(t, dir, namedAs) ==
    /\ CanCall(t)
    /\ Returns(t, [NoRet EXCEPT !.op = "GetZapLogger",
                                !.zap = GetZapLogger(env, dir, namedAs)])
    /\ UNCHANGED <<env, singleton, hb, held, ctxs, panicked>>

CallNewAppLogger(t, config) ==
    /\ CanCall(t)
    /\ LET r == NewAppLogger(config)
       IN  IF r.panic
           THEN Panics(t, "NewAppLogger")
           ELSE /\ Returns(t, [NoRet EXCEPT !.op = "NewAppLogger",
                                            !.zap = r.zap])
                /\ UNCHANGED panicked
    /\ UNCHANGED <<env, singleton, hb, held, ctxs>>

CallNewTestAppLogger(t, dir) ==
    /\ CanCall(t)
    /\ Returns(t, [NoRet EXCEPT !.op = "NewTestAppLogger",
                                !.zap = NewTestAppLogger(dir)])
    /\ UNCHANGED <<env, singleton, hb, held, ctxs, panicked>>

(* --------------------------- specifications --------------------------- *)
\* the slog singleton and what is done with the loggers it hands out
Getter(t) ==
    \/ \E op \in GetOps, dir \in Dirs : GetStart(t, op, dir)
    \/ GetInit(t)
    \/ Build(t)
    \/ BuildDone(t)
    \/ InitWait(t)
    \/ GetFinish(t)

Next ==
    \E t \in Threads :
        \/ \E opts \in OptLists : InitCall(t, opts)
        \/ Getter(t)
        \/ \E n \in 0..1 : WithAttrs(t, n)
        \/ \E lvl \in {"INFO", "ERROR"} : Log(t, lvl)

Spec == Init /\ [][Next]_vars

\* the context carrier, next to getters that construct the singleton
NextCtx ==
    \E t \in Threads :
        \/ \E c \in CtxIds, L \in AttachValues : CallWithLogger(t, c, L)
        \/ \E c \in CtxIds : CallLoggerFromContext(t, c)
        \/ Getter(t)

SpecCtx == Init /\ [][NextCtx]_vars

\* the zap constructors
NextZap ==
    \E t \in Threads :
        \/ \E dir \in Dirs, n \in {Empty, S_svc} : CallGetZapLogger(t, dir, n)
        \/ \E config \in Configs : CallNewAppLogger(t, config)
        \/ \E dir \in Dirs : CallNewTestAppLogger(t, dir)

SpecZap == Init /\ [][NextZap]_vars

\* every operation of the package
SpecAll == Init /\ [][Next \/ NextCtx \/ NextZap]_vars

(* ------------------------------- claims ------------------------------- *)
InitOps == GetOps \cup {"Init"}

\* C1: build runs at most once in a run, and has run exactly once as soon as
\* a call of Init or of a getter has returned.
C1_BuildExactlyOnce ==
    /\ buildCount <= 1
    /\ last.op \in InitOps => buildCount = 1

\* two threads hold a logger from a getter and one of them went through
\* Init, after a single build
C1_Witness ==
    /\ buildCount = 1
    /\ \E t, u \in Threads :
         t # u /\ held[t].via \in GetOps /\ held[u].via \in GetOps /\ hb[t]

\* C2: every getter call returns the one non-nil logger the construction
\* produced, seen whole.
C2_SameHandle ==
    /\ last.op \in GetOps =>
         ~IsNil(last.logger) /\ last.logger = base /\ last.complete
    /\ \A t \in Threads :
         held[t].via \in GetOps =>
           ~IsNil(held[t].logger) /\ held[t].logger = base /\ held[t].complete

\* C3 as stated: after any Init call that supplies a level or a format has
\* returned, the singleton uses that level and the handler of that format.
C3_OverrideAlways ==
    last.op = "Init" =>
      /\ last.sup.hasLevel => base.level = last.sup.level
      /\ last.sup.hasFormat => base.handler = HandlerFor(last.sup.format)

\* C3 amended: after the Init call that ran the construction has returned,
\* the singleton uses the last level and the handler of the last format the
\* call supplied, in every environment; what it did not supply is derived
\* from the environment.
C3_OverrideWhenConstructing ==
    last.op = "Init" /\ last.built =>
      /\ base.level = IF last.sup.hasLevel THEN last.sup.level
                      ELSE defaultConfig(env).Level
      /\ base.handler = IF last.sup.hasFormat THEN HandlerFor(last.sup.format)
                        ELSE HandlerFor(defaultConfig(env).Format)

\* the constructing Init supplied a level and a format that both differ from
\* what the environment gives
C3_Witness ==
    /\ last.op = "Init" /\ last.built
    /\ last.sup.hasLevel /\ last.sup.hasFormat
    /\ base.level = "ERROR" /\ defaultConfig(env).Level = "DEBUG"
    /\ base.handler = "json" /\ defaultConfig(env).Format = S_text

\* C4: a record that passes the level, written through the logger that
\* GetSlogMultiLogger returned, reaches the console and the file.
C4_MultiLoggerFansOut ==
    (last.op = "Log" /\ last.via = "GetSlogMultiLogger" /\ last.complete
       /\ Enabled(last.logger, last.level)) =>
      /\ StdoutSink \in last.sinks
      /\ \E d \in last.sinks : d.kind = "file"

\* C6: no operation of the package panics.
C6_NoPanic == ~panicked

RECURSIVE HasAttachment(_, _)
HasAttachment(cs, c) ==
    c # 0 /\ (cs[c].key = contextLoggerKey \/ HasAttachment(cs, cs[c].parent))

C9_SingletonFrozen ==
    [][~IsNil(base) => base' = base /\ initErr' = initErr]_vars

\* Init with options has returned after the singleton was constructed by a
\* getter, and the logger is still the getter's
C9_Witness ==
    /\ last.op = "Init" /\ ~last.built /\ last.sup.hasLevel
    /\ base = build(ApplyOpts(defaultConfig(env), <<>>)).logger

\* C10: slog.SetDefault(base) is never performed twice, and has been
\* performed once a getter has returned.
C10_SetDefaultExactlyOnce ==
    /\ setDefaultCount <= 1
    /\ last.op \in GetOps => setDefaultCount = 1

(* ------------------- environment and format inputs -------------------- *)
\* values of ENV, GO_ENV and INFRA, and the snapshots made of them
EnvValues == {Empty, S_dev, S_DEV_sp, S_prod, S_Development}
GoEnvValues == {Empty, S_development, S_devel}
InfraValues == {Empty, S_local, S_Local, S_local_nl, S_locale}
WideEnvSnapshots == [ENV : EnvValues, GO_ENV : GoEnvValues, INFRA : InfraValues]

\* formats passed to WithFormat
Formats ==
    {Empty, S_json, S_text, S_TEXT_sp, S_console, S_xml, S_Console_tab, S_te_xt}
FormatOptLists == {<<>>} \cup {<<WithFormat(f)>> : f \in Formats}

InitEnv ==
    /\ env \in WideEnvSnapshots
    /\ once = "new"
    /\ base = NIL
    /\ initErr = NoErr
    /\ cfgLocal = defaultConfig(env)
    /\ buildCount = 0
    /\ setDefaultCount = 0
    /\ slogDefault = NIL
    /\ noticeCount = 0
    /\ pc = [t \in Threads |-> "idle"]
    /\ call = [t \in Threads |-> NoCall]
    /\ hb = [t \in Threads |-> FALSE]
    /\ held = [t \in Threads |-> NoHeld]
    /\ last = NoRet
    /\ calls = 0
    /\ ctxs = CallerCtxs
    /\ panicked = FALSE

\* Init with and without a format, and GetZapLogger, called one after the
\* other by one goroutine in every environment
NextEnv ==
    \E t \in {1} :
        \/ \E opts \in FormatOptLists : InitCall(t, opts)
        \/ Build(t)
        \/ BuildDone(t)
        \/ \E dir \in Dirs, n \in {Empty, S_svc} : CallGetZapLogger(t, dir, n)

SpecEnv == InitEnv /\ [][NextEnv]_vars

\* the spellings in the inputs that denote the development posture, and
\* those that denote the local infrastructure
DevSpellings == {S_dev, S_DEV_sp, S_development, S_Development}
LocalSpellings == {S_local, S_Local, S_local_nl}
TextSpellings == {S_text, S_TEXT_sp, S_console, S_Console_tab}

\* the snapshot e denotes the development posture
DevPosture(e) ==
    e.ENV \in DevSpellings \/ e.GO_ENV \in DevSpellings
      \/ e.INFRA \in LocalSpellings

\* the thread inside once.Do, if any, was given no option
ConstructingPlain ==
    \E t \in Threads :
        pc[t] \in {"build", "seterr"} /\ ~call[t].sup.hasFormat

\* C11: with no option supplied the configuration resolved from the
\* environment has format text and level debug exactly when ENV or GO_ENV
\* spells dev or development or INFRA spells local (case and surrounding
\* white space ignored), and json and info otherwise; the writer is standard
\* output and AddSource is set.
C11_EnvironmentDerivation ==
    ConstructingPlain =>
      cfgLocal = [Level     |-> IF DevPosture(env) THEN "DEBUG" ELSE "INFO",
                  Format    |-> IF DevPosture(env) THEN S_text ELSE S_json,
                  Writer    |-> Stdout,
                  AddSource |-> TRUE]

\* Init() is constructing where only the padded upper-case ENV denotes dev
C11_Witness ==
    /\ ConstructingPlain
    /\ env.ENV = S_DEV_sp /\ env.GO_ENV = S_devel /\ env.INFRA = S_locale
    /\ cfgLocal.Format = S_text /\ cfgLocal.Level = "DEBUG"

(* ------------------------- writes that fail --------------------------- *)
\* the writers handed to GetMultiWriter, and the lists made of them
Writers == {Stdout, GetFileWriter(Empty), GetFileWriter(S_tmp)}
DestLists ==
    {ws \in UNION {[1..n -> Writers] : n \in 1..3} :
        \A i, j \in DOMAIN ws : i # j => ws[i] # ws[j]}
AllSinks == {w[1] : w \in Writers}

\* GetMultiWriter(dests...).Write(p) while the destinations in failing fail
CallMultiWrite(t, dests, failing) ==
    /\ CanCall(t)
    /\ LET w == GetMultiWriter(dests)
           r == MultiWrite(w, failing)
       IN  Returns(t, [NoRet EXCEPT !.op = "MultiWrite", !.writer = w,
                                    !.failing = failing, !.sinks = r.sinks,
                                    !.err = r.err])
    /\ UNCHANGED <<env, singleton, hb, held, ctxs, panicked>>

NextWrite ==
    \E t \in Threads, dests \in DestLists, failing \in SUBSET AllSinks :
        CallMultiWrite(t, dests, failing)

SpecWrite == Init /\ [][NextWrite]_vars

\* C12: a write through the multi writer reaches every destination that did
\* not fail, wherever the failing ones stand in the list, and the composed
\* write reports a failure only if every destination failed.
C12_PartialFailureIsolated ==
    last.op = "MultiWrite" =>
      LET all == {last.writer[i] : i \in 1..Len(last.writer)}
      IN  /\ all \ last.failing \subseteq last.sinks
          /\ last.err # NoErr => all \subseteq last.failing

\* C13: build chooses the handler from the format alone: the text handler
\* exactly when the format spells text or console (case and surrounding
\* white space ignored), the JSON handler for json and for every other
\* format, the empty one included; it returns a logger and no error.
C13_HandlerFromFormat ==
    buildCount > 0 =>
      /\ ~IsNil(base)
      /\ base.handler = IF cfgLocal.Format \in TextSpellings THEN "text"
                        ELSE "json"
      /\ once = "done" => initErr = NoErr
      /\ last.op = "Init" => last.err = NoErr

\* Init(WithFormat("\tConsole")) has returned with a text handler where the
\* environment asks for JSON
C13_Witness ==
    /\ last.op = "Init" /\ last.built /\ last.sup.format = S_Console_tab
    /\ ~DevPosture(env)
    /\ base.handler = "text"

\* C16: GetZapLogger selects the debug level and the development encoder
\* exactly when INFRA spells local, case and surrounding white space
\* ignored, as defaultConfig does for the same snapshot.
C16_InfraNormalised ==
    last.op = "GetZapLogger" =>
      LET local == last.zap.level = "DebugLevel"
                     /\ last.zap.encoder = "development"
      IN  /\ local <=> env.INFRA \in LocalSpellings
          /\ env.ENV = Empty /\ env.GO_ENV = Empty =>
                (local <=> defaultConfig(env).Level = "DEBUG")

(* ----------------------------- termination ---------------------------- *)
\* calls of Init and of the getters only (whether a call returns does not
\* depend on its options or its directory)
NextLive ==
    \E t \in Threads :
        \/ InitCall(t, <<>>)
        \/ \E op \in GetOps : GetStart(t, op, Empty)
        \/ GetInit(t)
        \/ Build(t)
        \/ BuildDone(t)
        \/ InitWait(t)
        \/ GetFinish(t)

\* a goroutine inside a call keeps being scheduled: whatever step of its
\* call is possible is eventually taken (a waiter of once.Do has no
\* possible step until the once completes)
Step(t) ==
    GetInit(t) \/ Build(t) \/ BuildDone(t) \/ InitWait(t) \/ GetFinish(t)

Fairness == \A t \in Threads : WF_vars(Step(t))

SpecLive == Init /\ [][NextLive]_vars /\ Fairness

\* C14: under fair scheduling every call of Init or of a getter eventually
\* returns: the one construction completes, and the callers that waited
\* for it are released.
C14_EveryCallReturns ==
    \A t \in Threads : (pc[t] # "idle") ~> (pc[t] = "idle")

\* a caller is blocked in once.Do while another thread is constructing
C14_Witness ==
    \E t, u \in Threads :
        /\ t # u
        /\ pc[t] = "init" /\ once = "running"
        /\ pc[u] \in {"build", "seterr"}

(* ------------------------- the failed state --------------------------- *)
\* C17: the construction never fails: initErr stays nil, every Init returns
\* nil, and no getter prints the notice or hands out the discard logger.
C17_NeverFailed ==
    /\ initErr = NoErr
    /\ noticeCount = 0
    /\ last.op = "Init" => last.err = NoErr
    /\ last.op \in GetOps => last.logger # DiscardLogger
    /\ \A t \in Threads : held[t].logger # DiscardLogger

\* a getter that went through Init and its error check has returned base,
\* after an Init call returned to another thread
C17_Witness ==
    /\ once = "done" /\ last.op \in GetOps /\ last.logger = base
    /\ \E t, u \in Threads :
         t # u /\ hb[t] /\ held[t].via \in GetOps /\ hb[u] /\ held[u] = NoHeld

(* ----------------------- results of the lookup ------------------------ *)
\* the contexts from c up to the root, and those of them made by WithLogger
RECURSIVE Ancestry(_, _)
Ancestry(cs, c) == IF c = 0 THEN {} ELSE {c} \cup Ancestry(cs, cs[c].parent)
Attachments(cs, c) == {k \in Ancestry(cs, c) : cs[k].key = contextLoggerKey}

\* what the lookup on c is to return: the logger of the attachment made
\* last on the ancestry of c (a derived context is newer than its parent),
\* and the error if there is none or if it attached nil
Expected(cs, c) ==
    LET A == Attachments(cs, c)
    IN  IF A = {} THEN [logger |-> NilValue, err |-> ErrNoLoggerInContext]
        ELSE LET k == CHOOSE i \in A : \A j \in A : j <= i
             IN  IF cs[k].val = NilValue
                 THEN [logger |-> NilValue, err |-> ErrNoLoggerInContext]
                 ELSE [logger |-> cs[k].val, err |-> NoErr]

====
